---- MODULE Spec2Model ----
(***************************************************************************)
(* Model of the frame extraction (Streamer.py, stream_video) and of the    *)
(* motion detection over the extracted frame files (detector.py,           *)
(* detect_motion_in_frames).                                               *)
(*                                                                         *)
(* stream_video is modelled step by step: one action per block of the      *)
(* function between two points where the file system or the decoder is     *)
(* consulted.  The decoder (cv2.VideoCapture) is the environment: a read   *)
(* may fail at any time and may succeed while the current index is below   *)
(* frame_count + extra, where extra is the number of frames the container  *)
(* holds beyond the count it reports (extra = 0: the count is reliable).   *)
(***************************************************************************)
EXTENDS Integers, Sequences, FiniteSets, TLC

VARIABLES
    \* ---- the input video and the file system (environment) ----
    video_path,            \* the path argument of stream_video
    fsize,                 \* size in bytes of each path that exists
    canOpen,               \* cap.isOpened() after cv2.VideoCapture(video_path)
    fps,                   \* cap.get(CAP_PROP_FPS)
    frame_count,           \* int(cap.get(CAP_PROP_FRAME_COUNT))
    extra,                 \* frames decodable beyond the reported count
    dirExists,             \* os.path.isdir(output_path)
    files,                 \* names (5-digit strings) of the frame_NNNNN.jpg in output_path
    \* ---- stream_video, one entry per invocation ----
    pc,                    \* position in stream_video
    idx,                   \* idx
    consecutive_skipped,   \* consecutive_skipped
    retry_count,           \* retry_count
    backoff,               \* backoff
    success,               \* success of the last cap.read()
    capOpen,               \* the decoder handle is open and not released
    err,                   \* exception raised, or "none"
    ret,                   \* value returned, or "unset"
    attempts,              \* cap.read() calls in the current loop iteration (0: none ever)
    sleeps,                \* time.sleep() arguments in the current loop iteration
    wlog,                  \* indices whose artifact this invocation wrote, in order
    skipped,               \* indices this invocation skipped, in order
    failsSince,            \* failed cap.read() calls since the last successful one
    sleepsSince,           \* time.sleep() calls since the last successful cap.read()
    \* ---- detect_motion_in_frames ----
    dpc,                   \* position in detect_motion_in_frames
    display,               \* the display argument
    frame_paths,           \* frame_paths, sorted
    i,                     \* position of the next entry of enumerate(frame_paths)
    firstFrame,            \* firstFrame (NoFrame for None)
    results,               \* results: <<frame_number, boxes>> entries
    resultSrc,             \* the artifact name each entry of results was computed from
    refSrc,                \* positions at which firstFrame was assigned, in order
    unread,                \* positions whose cv2.imread returned None
    allSame                \* every frame read so far equals the reference frame

vars == <<video_path, fsize, canOpen, fps, frame_count, extra, dirExists, files,
          pc, idx, consecutive_skipped, retry_count, backoff, success, capOpen,
          err, ret, attempts, sleeps, wlog, skipped, failsSince, sleepsSince,
          dpc, display, frame_paths, i, firstFrame, results, resultSrc, refSrc, unread,
          allSame>>

detVars == <<dpc, display, frame_paths, i, firstFrame, results, resultSrc, refSrc, unread,
             allSame>>
envVars == <<video_path, fsize, canOpen, fps, frame_count, extra>>
sinceVars == <<failsSince, sleepsSince>>
runVars == <<pc, idx, consecutive_skipped, retry_count, backoff, success, capOpen,
             err, ret, attempts, sleeps, wlog, skipped, sinceVars>>

----------------------------------------------------------------------------
\* Bounds of the model
MaxFrames == 5             \* largest reported frame count
MaxExtra == 1              \* most frames held beyond the reported count
MaxDetFrames == 3          \* largest reported frame count of a video that is also detected on
MaxConcFrames == 2         \* largest reported frame count of a video extracted by two calls at once

\* Program constants
max_consecutive_skips == 4
max_retries_per_frame == 3
max_video_size_gb == 1
min_area == 500            \* default of detect_motion_in_frames
DeltaThresh == 25          \* cv2.threshold(frameDelta, 25, 255, THRESH_BINARY)
GiB == 1073741824
HardCodedPath == "dog_video.MP4"
frames_dir == "frames_opencv"

Runs == {1, 2}             \* a first invocation and a re-invocation
Paths == {HardCodedPath, "other.mp4"}
Sizes == {GiB, GiB + 1}

\* A frame after resize, grayscale and blur is modelled by the intensity of
\* each of its regions; the regions lie apart, so dilation does not join them.
Regions == {1, 2}
Intensities == {0, 25, 60}
Grays == [Regions -> Intensities]
NoFrame == <<>>
RegionArea == <<400, 900>>                            \* cv2.contourArea
RegionBox == <<<<10, 10, 21, 21>>, <<100, 50, 31, 31>>>>  \* cv2.boundingRect

----------------------------------------------------------------------------
\* Artifact names: f"frame_{idx:05d}.jpg" is modelled by its digit string.

RECURSIVE Digits(_)
Digits(n) == IF n < 10 THEN <<n>> ELSE Digits(n \div 10) \o <<n % 10>>

RECURSIVE ZeroPad(_, _)
ZeroPad(s, width) == IF Len(s) >= width THEN s ELSE ZeroPad(<<0>> \o s, width)

FrameName(n) == ZeroPad(Digits(n), 5)

RECURSIVE NameIndex(_)
NameIndex(s) ==
    IF s = <<>> THEN 0 ELSE 10 * NameIndex(SubSeq(s, 1, Len(s) - 1)) + s[Len(s)]

OutputPath(p) == <<frames_dir, p>>

\* os.path.exists(p)
PathExists(p) == p \in DOMAIN fsize

----------------------------------------------------------------------------
TypeOK ==
    /\ video_path \in Paths
    /\ \E present \in SUBSET Paths : fsize \in [present -> Sizes]
    /\ canOpen \in BOOLEAN
    /\ fps \in {0, 30}
    /\ frame_count \in 0..MaxFrames
    /\ extra \in 0..MaxExtra
    /\ dirExists \in BOOLEAN
    /\ \A r \in Runs : idx[r] \in 0..(MaxFrames + MaxExtra)

Init ==
    /\ video_path \in Paths
    /\ \E present \in SUBSET Paths : fsize \in [present -> Sizes]
    /\ video_path = HardCodedPath => "other.mp4" \notin DOMAIN fsize
    /\ canOpen \in BOOLEAN
    /\ ~PathExists(video_path) => ~canOpen
    /\ fps \in {0, 30}
    /\ ~canOpen => fps = 0
    /\ frame_count \in 0..MaxFrames
    /\ extra \in 0..MaxExtra
    /\ fps = 0 => frame_count = 0 /\ extra = 0
    /\ dirExists = FALSE
    /\ files = {}
    /\ pc = [r \in Runs |-> "idle"]
    /\ idx = [r \in Runs |-> 0]
    /\ consecutive_skipped = [r \in Runs |-> 0]
    /\ retry_count = [r \in Runs |-> 0]
    /\ backoff = [r \in Runs |-> 0]
    /\ success = [r \in Runs |-> FALSE]
    /\ capOpen = [r \in Runs |-> FALSE]
    /\ err = [r \in Runs |-> "none"]
    /\ ret = [r \in Runs |-> <<"unset">>]
    /\ attempts = [r \in Runs |-> 0]
    /\ sleeps = [r \in Runs |-> <<>>]
    /\ wlog = [r \in Runs |-> <<>>]
    /\ skipped = [r \in Runs |-> <<>>]
    /\ failsSince = [r \in Runs |-> 0]
    /\ sleepsSince = [r \in Runs |-> 0]
    /\ dpc = "idle"
    /\ display = FALSE
    /\ frame_paths = <<>>
    /\ i = 0
    /\ firstFrame = NoFrame
    /\ results = <<>>
    /\ resultSrc = <<>>
    /\ refSrc = <<>>
    /\ unread = {}
    /\ allSame = TRUE

----------------------------------------------------------------------------
\* stream_video

Terminal == {"returned", "raised"}

\* Invocations run one after the other: the second starts once the first ended.
MayStart(r) ==
    /\ \A q \in Runs \ {r} : pc[q] \in Terminal \cup {"idle"}
    /\ r = 1 \/ pc[1] \in Terminal

\* os.path.isdir(output_path) and os.listdir(output_path)
\* (slips: the test is dropped; the directory alone counts as done)
FramesExist_Never == FALSE
FramesExist_DirOnly == dirExists
FramesExist == dirExists /\ files # {}

\* the value of the bare `return` of the frames-already-exist branch
SkipReturn(p) == <<"None">>

\* the path whose size os.path.getsize measures
SizeCheckedPath(p) == HardCodedPath

\* size_gb > max_video_size_gb, with size_gb = size_bytes / (1024 ** 3)
TooLarge(size_bytes) == size_bytes > max_video_size_gb * GiB

\* what a cap.read() can return as success at index n
ReadOutcomes(n) == {FALSE} \cup (IF n < frame_count + extra THEN {TRUE} ELSE {})

\* consecutive_skipped after a read that succeeded on the first attempt
\* (the counter is not assigned on that path)
CounterAfterFirstTry(cs) == cs

\* consecutive_skipped after a retry that succeeded
\* (slip: the counter is not reset)
CounterAfterRetry_Keep(cs) == cs
CounterAfterRetry(cs) == 0

\* backoff *= 2
NextBackoff(b) == b * 2

\* idx < frame_count: a failed read is retried, otherwise it ends the stream
\* (slip: idx <= frame_count)
RetryWanted_AtCount(n) == n <= frame_count
RetryWanted(n) == n < frame_count

\* idx after a skipped frame (slip: the index is not advanced)
IdxAfterSkip_Stay(n) == n
IdxAfterSkip(n) == n + 1

\* consecutive_skipped >= max_consecutive_skips, tested after the increment
\* (slip: > instead of >=)
AbortWanted_Late(cs) == cs > max_consecutive_skips
AbortWanted(cs) == cs >= max_consecutive_skips

\* where a raise of a configuration or input error leaves the call
\* (slip: the zero frame rate is reported but the call goes on)
AfterConfigError_GoOn(e) == IF e = "ZeroFps" THEN "read" ELSE "raised"
AfterConfigError(e) == "raised"

\* idx after a saved frame (slip: the index is advanced twice)
IdxAfterSave_Twice(n) == n + 2
IdxAfterSave(n) == n + 1

Invoke(r) ==
    /\ pc[r] = "idle"
    /\ MayStart(r)
    /\ dpc = "idle"
    /\ IF ~PathExists(video_path)
       THEN /\ err' = [err EXCEPT ![r] = "NotFound"]
            /\ pc' = [pc EXCEPT ![r] = AfterConfigError("NotFound")]
       ELSE /\ pc' = [pc EXCEPT ![r] = "check"]
            /\ UNCHANGED err
    /\ UNCHANGED <<envVars, detVars, sinceVars, dirExists, files, idx, consecutive_skipped, retry_count,
                   backoff, success, capOpen, ret, attempts, sleeps, wlog, skipped>>

CheckExisting(r) ==
    /\ pc[r] = "check"
    /\ IF FramesExist
       THEN /\ ret' = [ret EXCEPT ![r] = SkipReturn(video_path)]
            /\ pc' = [pc EXCEPT ![r] = "returned"]
            /\ UNCHANGED dirExists
       ELSE /\ dirExists' = TRUE
            /\ pc' = [pc EXCEPT ![r] = "size"]
            /\ UNCHANGED ret
    /\ UNCHANGED <<envVars, detVars, sinceVars, files, idx, consecutive_skipped, retry_count, backoff,
                   success, capOpen, err, attempts, sleeps, wlog, skipped>>

SizeCheck(r) ==
    /\ pc[r] = "size"
    /\ LET measured == SizeCheckedPath(video_path) IN
       IF ~PathExists(measured)
       THEN /\ err' = [err EXCEPT ![r] = "GetsizeFailed"]
            /\ pc' = [pc EXCEPT ![r] = AfterConfigError("GetsizeFailed")]
       ELSE IF TooLarge(fsize[measured])
       THEN /\ err' = [err EXCEPT ![r] = "SizeLimit"]
            /\ pc' = [pc EXCEPT ![r] = AfterConfigError("SizeLimit")]
       ELSE /\ pc' = [pc EXCEPT ![r] = "open"]
            /\ UNCHANGED err
    /\ UNCHANGED <<envVars, detVars, sinceVars, dirExists, files, idx, consecutive_skipped, retry_count,
                   backoff, success, capOpen, ret, attempts, sleeps, wlog, skipped>>

Open(r) ==
    /\ pc[r] = "open"
    /\ IF ~canOpen
       THEN /\ err' = [err EXCEPT ![r] = "OpenFailed"]
            /\ pc' = [pc EXCEPT ![r] = AfterConfigError("OpenFailed")]
            /\ UNCHANGED <<capOpen, idx, consecutive_skipped>>
       ELSE IF fps = 0
       THEN /\ err' = [err EXCEPT ![r] = "ZeroFps"]
            /\ pc' = [pc EXCEPT ![r] = AfterConfigError("ZeroFps")]
            /\ capOpen' = [capOpen EXCEPT ![r] = TRUE]
            /\ UNCHANGED <<idx, consecutive_skipped>>
       ELSE /\ capOpen' = [capOpen EXCEPT ![r] = TRUE]
            /\ idx' = [idx EXCEPT ![r] = 0]
            /\ consecutive_skipped' = [consecutive_skipped EXCEPT ![r] = 0]
            /\ pc' = [pc EXCEPT ![r] = "read"]
            /\ UNCHANGED err
    /\ UNCHANGED <<envVars, detVars, sinceVars, dirExists, files, retry_count, backoff, success, ret,
                   attempts, sleeps, wlog, skipped>>

\* success, frame = cap.read() at the top of the loop, and the branch taken on it
Read(r) ==
    /\ pc[r] = "read"
    /\ \E ok \in ReadOutcomes(idx[r]) :
        /\ success' = [success EXCEPT ![r] = ok]
        /\ attempts' = [attempts EXCEPT ![r] = 1]
        /\ sleeps' = [sleeps EXCEPT ![r] = <<>>]
        /\ failsSince' = [failsSince EXCEPT ![r] = IF ok THEN 0 ELSE @ + 1]
        /\ sleepsSince' = [sleepsSince EXCEPT ![r] = IF ok THEN 0 ELSE @]
        /\ IF ok
           THEN /\ consecutive_skipped' =
                      [consecutive_skipped EXCEPT ![r] = CounterAfterFirstTry(@)]
                /\ pc' = [pc EXCEPT ![r] = "save"]
                /\ UNCHANGED <<retry_count, backoff>>
           ELSE IF RetryWanted(idx[r])
           THEN /\ retry_count' = [retry_count EXCEPT ![r] = 0]
                /\ backoff' = [backoff EXCEPT ![r] = 1]
                /\ pc' = [pc EXCEPT ![r] = "retry"]
                /\ UNCHANGED consecutive_skipped
           ELSE /\ pc' = [pc EXCEPT ![r] = "release"]
                /\ UNCHANGED <<retry_count, backoff, consecutive_skipped>>
    /\ UNCHANGED <<envVars, detVars, dirExists, files, idx, capOpen, err, ret, wlog, skipped>>

\* one pass of the retry loop; when the loop ends, the code that follows it
Retry(r) ==
    /\ pc[r] = "retry"
    /\ retry_count[r] < max_retries_per_frame
    /\ \E ok \in ReadOutcomes(idx[r]) :
        LET rc == retry_count[r] + 1 IN
        /\ sleeps' = [sleeps EXCEPT ![r] = Append(@, backoff[r])]
        /\ retry_count' = [retry_count EXCEPT ![r] = rc]
        /\ backoff' = [backoff EXCEPT ![r] = NextBackoff(@)]
        /\ success' = [success EXCEPT ![r] = ok]
        /\ attempts' = [attempts EXCEPT ![r] = @ + 1]
        /\ failsSince' = [failsSince EXCEPT ![r] = IF ok THEN 0 ELSE @ + 1]
        /\ sleepsSince' = [sleepsSince EXCEPT ![r] = IF ok THEN 0 ELSE @ + 1]
        /\ IF ok
           THEN /\ consecutive_skipped' =
                      [consecutive_skipped EXCEPT ![r] = CounterAfterRetry(@)]
                /\ pc' = [pc EXCEPT ![r] = "save"]
                /\ UNCHANGED <<idx, skipped, err>>
           ELSE IF rc < max_retries_per_frame
           THEN UNCHANGED <<consecutive_skipped, pc, idx, skipped, err>>
           ELSE /\ consecutive_skipped' = [consecutive_skipped EXCEPT ![r] = @ + 1]
                /\ skipped' = [skipped EXCEPT ![r] = Append(@, idx[r])]
                /\ IF AbortWanted(consecutive_skipped[r] + 1)
                   THEN /\ err' = [err EXCEPT ![r] = "TooManyFailures"]
                        /\ pc' = [pc EXCEPT ![r] = "raised"]
                        /\ UNCHANGED idx
                   ELSE /\ idx' = [idx EXCEPT ![r] = IdxAfterSkip(@)]
                        /\ pc' = [pc EXCEPT ![r] = "read"]
                        /\ UNCHANGED err
    /\ UNCHANGED <<envVars, detVars, dirExists, files, capOpen, ret, wlog>>

\* cv2.imwrite(frame_{idx:05d}.jpg); idx += 1
Save(r) ==
    /\ pc[r] = "save"
    /\ files' = files \cup {FrameName(idx[r])}
    /\ wlog' = [wlog EXCEPT ![r] = Append(@, idx[r])]
    /\ idx' = [idx EXCEPT ![r] = IdxAfterSave(@)]
    /\ pc' = [pc EXCEPT ![r] = "read"]
    /\ UNCHANGED <<envVars, detVars, sinceVars, dirExists, consecutive_skipped, retry_count, backoff,
                   success, capOpen, err, ret, attempts, sleeps, skipped>>

\* cap.release(); return output_path
Finish(r) ==
    /\ pc[r] = "release"
    /\ capOpen' = [capOpen EXCEPT ![r] = FALSE]
    /\ ret' = [ret EXCEPT ![r] = OutputPath(video_path)]
    /\ pc' = [pc EXCEPT ![r] = "returned"]
    /\ UNCHANGED <<envVars, detVars, sinceVars, dirExists, files, idx, consecutive_skipped, retry_count,
                   backoff, success, err, attempts, sleeps, wlog, skipped>>

----------------------------------------------------------------------------
\* detect_motion_in_frames, run on the directory stream_video writes

\* string comparison of two names, as list.sort() orders them
RECURSIVE NameLess(_, _)
NameLess(a, b) ==
    IF a = <<>> THEN b # <<>>
    ELSE IF b = <<>> THEN FALSE
    ELSE IF Head(a) # Head(b) THEN Head(a) < Head(b)
    ELSE NameLess(Tail(a), Tail(b))

\* frame_paths = glob.glob("frame_*.jpg"); frame_paths.sort()
RECURSIVE SortedNames(_)
SortedNames(S) ==
    IF S = {} THEN <<>>
    ELSE LET m == CHOOSE x \in S : \A y \in S \ {x} : NameLess(x, y)
         IN  <<m>> \o SortedNames(S \ {m})

Abs(x) == IF x < 0 THEN -x ELSE x

\* absdiff, threshold and dilate: the regions marked as changed
Thresh(ref, gray) == {g \in Regions : Abs(ref[g] - gray[g]) > DeltaThresh}

\* the contours of the binary map, in the order findContours gives them
RECURSIVE Contours(_)
Contours(T) ==
    IF T = {} THEN <<>>
    ELSE LET g == CHOOSE x \in T : \A y \in T : x <= y
         IN  <<g>> \o Contours(T \ {g})

\* the contour is kept unless cv2.contourArea(c) < min_area
KeepContour(c) == ~(RegionArea[c] < min_area)

\* the loop over cnts: the bounding boxes of the contours kept
RECURSIVE BoxesOf(_)
BoxesOf(cnts) ==
    IF cnts = <<>> THEN <<>>
    ELSE (IF KeepContour(Head(cnts)) THEN <<RegionBox[Head(cnts)]>> ELSE <<>>)
         \o BoxesOf(Tail(cnts))

\* frame_number = i (slip: numbering from 1)
FrameNumber_FromOne(pos, name) == pos + 1
FrameNumber(pos, name) == pos

\* firstFrame after a readable frame: assigned only while it is None
\* (slip: a running background, assigned on every frame)
NextFirstFrame_Running(ff, gray) == gray
NextFirstFrame(ff, gray) == IF ff = NoFrame THEN gray ELSE ff

\* results after a frame with the given boxes (slips: the entry is put in
\* front; the entry is added whether or not a box was kept)
NextResults_Always(res, n, boxes) == Append(res, <<n, boxes>>)
NextResults_InFront(res, n, boxes) ==
    IF boxes # <<>> THEN <<<<n, boxes>>>> \o res ELSE res
NextResults(res, n, boxes) == IF boxes # <<>> THEN Append(res, <<n, boxes>>) ELSE res

DetectStart ==
    /\ dpc = "idle"
    /\ \A r \in Runs : pc[r] \in Terminal \cup {"idle"}
    /\ display' \in BOOLEAN
    /\ frame_paths' = SortedNames(files)
    /\ i' = 0
    /\ firstFrame' = NoFrame
    /\ results' = <<>>
    /\ dpc' = IF files = {} THEN "done" ELSE "loop"
    /\ UNCHANGED <<envVars, runVars, dirExists, files, resultSrc, refSrc, unread, allSame>>

\* one pass of the loop over enumerate(frame_paths)
DetectFrame ==
    /\ dpc = "loop"
    /\ i < Len(frame_paths)
    /\ \E gray \in Grays \cup {NoFrame}, key_q \in BOOLEAN :
        /\ key_q => display /\ gray # NoFrame /\ firstFrame # NoFrame
        /\ IF gray = NoFrame
           THEN /\ unread' = unread \cup {i}
                /\ UNCHANGED <<firstFrame, results, resultSrc, refSrc, allSame>>
           ELSE IF firstFrame = NoFrame
           THEN /\ firstFrame' = NextFirstFrame(firstFrame, gray)
                /\ refSrc' = Append(refSrc, i)
                /\ UNCHANGED <<results, resultSrc, unread, allSame>>
           ELSE LET boxes == BoxesOf(Contours(Thresh(firstFrame, gray)))
                    name == frame_paths[i + 1]
                IN  /\ results' = NextResults(results, FrameNumber(i, name), boxes)
                    /\ resultSrc' = IF results' # results
                                     THEN Append(resultSrc, name) ELSE resultSrc
                    /\ firstFrame' = NextFirstFrame(firstFrame, gray)
                    /\ refSrc' = IF firstFrame' # firstFrame
                                  THEN Append(refSrc, i) ELSE refSrc
                    /\ allSame' = (allSame /\ gray = firstFrame)
                    /\ UNCHANGED unread
        /\ i' = i + 1
        /\ dpc' = IF key_q THEN "done" ELSE "loop"
    /\ UNCHANGED <<envVars, runVars, dirExists, files, display, frame_paths>>

\* the loop is exhausted: return results
DetectReturn ==
    /\ dpc = "loop"
    /\ i >= Len(frame_paths)
    /\ dpc' = "done"
    /\ UNCHANGED <<envVars, runVars, dirExists, files, display, frame_paths, i,
                   firstFrame, results, resultSrc, refSrc, unread, allSame>>

StreamStep(r) ==
    \/ Invoke(r)
    \/ CheckExisting(r)
    \/ SizeCheck(r)
    \/ Open(r)
    \/ Read(r)
    \/ Retry(r)
    \/ Save(r)
    \/ Finish(r)

\* Extraction alone: every video and file system of Init, invoked twice.
Next == \E r \in Runs : StreamStep(r)

Spec == Init /\ [][Next]_vars

\* A call that has started keeps running: every sleep ends and every read
\* returns.  Nothing makes the caller invoke stream_video again.
Progress(r) ==
    \/ CheckExisting(r)
    \/ SizeCheck(r)
    \/ Open(r)
    \/ Read(r)
    \/ Retry(r)
    \/ Save(r)
    \/ Finish(r)

FairSpec == Spec /\ \A r \in Runs : WF_vars(Progress(r))

\* Extraction followed by detection on the frames it left, for a video that
\* passes the checks of stream_video and reports a reliable frame count.
PipelineInit ==
    /\ Init
    /\ video_path = HardCodedPath
    /\ fsize = [p \in {HardCodedPath} |-> GiB]
    /\ canOpen
    /\ fps = 30
    /\ frame_count <= MaxDetFrames
    /\ extra = 0

PipelineNext ==
    \/ \E r \in Runs : StreamStep(r)
    \/ DetectStart
    \/ DetectFrame
    \/ DetectReturn

PipelineSpec == PipelineInit /\ [][PipelineNext]_vars

\* Two calls of stream_video for the same video running at the same time (two
\* processes started on the same path): a call may start whatever the other
\* is doing, and their steps interleave.
InvokeConcurrent(r) ==
    /\ pc[r] = "idle"
    /\ dpc = "idle"
    /\ IF ~PathExists(video_path)
       THEN /\ err' = [err EXCEPT ![r] = "NotFound"]
            /\ pc' = [pc EXCEPT ![r] = AfterConfigError("NotFound")]
       ELSE /\ pc' = [pc EXCEPT ![r] = "check"]
            /\ UNCHANGED err
    /\ UNCHANGED <<envVars, detVars, sinceVars, dirExists, files, idx, consecutive_skipped,
                   retry_count, backoff, success, capOpen, ret, attempts, sleeps, wlog,
                   skipped>>

ConcInit ==
    /\ Init
    /\ video_path = HardCodedPath
    /\ fsize = [p \in {HardCodedPath} |-> GiB]
    /\ canOpen
    /\ fps = 30
    /\ frame_count <= MaxConcFrames
    /\ extra = 0

ConcNext ==
    \E r \in Runs :
        \/ InvokeConcurrent(r)
        \/ CheckExisting(r)
        \/ SizeCheck(r)
        \/ Open(r)
        \/ Read(r)
        \/ Retry(r)
        \/ Save(r)
        \/ Finish(r)

ConcSpec == ConcInit /\ [][ConcNext]_vars

----------------------------------------------------------------------------
\* Properties of stream_video

Elems(q) == {q[k] : k \in DOMAIN q}
IsSkipped(r, n) == n \in Elems(skipped[r])
IsWritten(r, n) == n \in Elems(wlog[r])

\* the number of consecutive skipped indices that ends with index n
RECURSIVE SkipRun(_, _)
SkipRun(r, n) == IF n < 0 \/ ~IsSkipped(r, n) THEN 0 ELSE 1 + SkipRun(r, n - 1)

Aborted(r) == pc[r] = "raised" /\ err[r] = "TooManyFailures"

\* the retries of the current index were exhausted by the last step of r
JustSkipped(r) == Aborted(r) \/ (pc[r] = "read" /\ attempts[r] > 0 /\ ~success[r])

\* stream_video ran its loop to the end and returned
Completed(r) == pc[r] = "returned" /\ attempts[r] > 0

\* C1: every successful read, first attempt or retry, leaves the
\* consecutive-skip counter at 0, so the fatal error is raised only when the
\* 4 most recent indices idx-3..idx were all skipped; skips separated by
\* successfully read frames never abort the run.
C1_AbortOnlyAfterFourConsecutiveSkips ==
    \A r \in Runs :
        /\ pc[r] = "save" => consecutive_skipped[r] = 0
        /\ Aborted(r) =>
               /\ idx[r] >= max_consecutive_skips - 1
               /\ \A n \in (idx[r] - (max_consecutive_skips - 1))..idx[r] : IsSkipped(r, n)

\* C2: every index that is skipped got exactly 3 retry reads, preceded by
\* sleeps of 1, 2 and 4 seconds, and the fatal error is raised right after the
\* 4th index of a run of consecutive failed indices is given up, never
\* earlier in the run and never after a 5th index was attempted.
C2_ThreeRetriesThenAbortAtFourth ==
    \A r \in Runs :
        /\ JustSkipped(r) => sleeps[r] = <<1, 2, 4>> /\ attempts[r] = 4
        /\ Len(sleeps[r]) <= max_retries_per_frame
        /\ Aborted(r) => SkipRun(r, idx[r]) = max_consecutive_skips
        /\ ~Aborted(r) /\ idx[r] > 0 => SkipRun(r, idx[r] - 1) < max_consecutive_skips

\* C3: an invocation that finds the destination directory non-empty returns
\* at once, with no decode read and no artifact written, and returns the
\* destination path a completed extraction returns.
C3_SkipReturnsDestinationPath ==
    [][\A r \in Runs :
          (pc[r] = "check" /\ FramesExist /\ pc'[r] # "check") =>
              /\ pc'[r] = "returned"
              /\ attempts'[r] = 0
              /\ wlog'[r] = <<>>
              /\ files' = files
              /\ ret'[r] = OutputPath(video_path)]_vars

\* C4: when stream_video completes normally on a video whose reported frame
\* count is reliable, artifacts written plus frames skipped is frame_count.
C4_WrittenPlusSkippedIsFrameCount ==
    \A r \in Runs :
        (Completed(r) /\ extra = 0) => Len(wlog[r]) + Len(skipped[r]) = frame_count

C4_Witness ==
    /\ Completed(1) /\ extra = 0
    /\ frame_count = MaxFrames
    /\ Len(wlog[1]) >= 2 /\ Len(skipped[1]) >= 2

\* C5: within one run the index starts at 0 and advances by 1 per written or
\* skipped frame; every index handled so far is either written once, as
\* frame_NNNNN after a successful read, or skipped, never both, and no
\* artifact is written twice.
C5_EachIndexWrittenOnceOrSkipped ==
    \A r \in Runs :
        LET handled == Len(wlog[r]) + Len(skipped[r]) IN
        /\ pc[r] \in {"idle", "check", "size", "open"} => handled = 0
        /\ pc[r] \in {"read", "retry", "save", "release"} \/ Completed(r) => idx[r] = handled
        /\ Aborted(r) => idx[r] = handled - 1
        /\ Elems(wlog[r]) \cup Elems(skipped[r]) = 0..(handled - 1)
        /\ Elems(wlog[r]) \cap Elems(skipped[r]) = {}
        /\ Cardinality(Elems(wlog[r])) = Len(wlog[r])
        /\ Cardinality(Elems(skipped[r])) = Len(skipped[r])
        /\ \A n \in Elems(wlog[r]) : FrameName(n) \in files /\ NameIndex(FrameName(n)) = n
        /\ pc[r] = "save" => success[r] /\ ~IsWritten(r, idx[r]) /\ ~IsSkipped(r, idx[r])

C5_Witness ==
    /\ Completed(1)
    /\ Len(wlog[1]) >= 2 /\ Len(skipped[1]) >= 2
    /\ IsSkipped(1, 0) /\ IsWritten(1, 1) /\ IsSkipped(1, 2)

\* the size check of invocation r has been made
SizeChecked(r) ==
    \/ pc[r] \in {"open", "read", "retry", "save", "release"}
    \/ pc[r] = "raised" /\ err[r] # "NotFound"
    \/ Completed(r)

\* C6: with the input path existing and the destination empty or absent,
\* stream_video fails with the size-limit error exactly when the size of the
\* file at the path argument exceeds max_video_size_gb GiB, before the decoder
\* is opened, whatever other files there are.
C6_SizeLimitOnInputPath ==
    \A r \in Runs :
        SizeChecked(r) =>
            /\ err[r] = "SizeLimit" <=> fsize[video_path] > max_video_size_gb * GiB
            /\ err[r] = "SizeLimit" => ~capOpen[r] /\ attempts[r] = 0
            /\ err[r] # "GetsizeFailed"

\* a first read of the loop failed with the index at or past frame_count
EndOfStream(r) == attempts[r] = 1 /\ ~success[r] /\ idx[r] >= frame_count

\* C7: a read that fails while idx >= frame_count (frame_count = 0 included)
\* ends stream_video normally at once: no retry, no sleep, no error, no skip
\* counted, and the destination path is returned.
C7_EndOfStreamReturnsNormally ==
    \A r \in Runs :
        EndOfStream(r) =>
            /\ pc[r] \in {"release", "returned"}
            /\ sleeps[r] = <<>>
            /\ err[r] = "none"
            /\ ~IsSkipped(r, idx[r])
            /\ pc[r] = "returned" => ret[r] = OutputPath(video_path)

C7_WitnessEmptyVideo ==
    /\ EndOfStream(1) /\ pc[1] = "returned"
    /\ frame_count = 0

C7_WitnessAfterFrames ==
    /\ EndOfStream(1) /\ pc[1] = "returned"
    /\ frame_count = MaxFrames /\ Len(skipped[1]) >= 1

----------------------------------------------------------------------------
\* Properties of detect_motion_in_frames

\* the position in frame_paths, from 0, of an artifact name
PosOf(name) == CHOOSE j \in 0..(Len(frame_paths) - 1) : frame_paths[j + 1] = name

\* the indices below n for which the directory holds no artifact
MissingBelow(n) == {m \in 0..(n - 1) : FrameName(m) \notin files}

C9_ReferenceIsFirstReadableFrame ==
    /\ Len(refSrc) <= 1
    /\ firstFrame = NoFrame <=> refSrc = <<>>
    /\ refSrc = <<>> => \A j \in 0..(i - 1) : j \in unread
    /\ refSrc # <<>> =>
        /\ refSrc[1] \notin unread
        /\ refSrc[1] < i
        /\ \A j \in 0..(refSrc[1] - 1) : j \in unread
    /\ \A k \in DOMAIN resultSrc :
        /\ PosOf(resultSrc[k]) \notin unread
        /\ refSrc # <<>> /\ PosOf(resultSrc[k]) > refSrc[1]
    /\ Len(results) = Len(resultSrc)

C9_Witness ==
    /\ dpc = "done"
    /\ Len(frame_paths) = 3
    /\ 0 \in unread
    /\ refSrc = <<1>>
    /\ Len(results) = 1

\* C10: the result list only grows at its end, by at most one entry per
\* frame processed, and the entry added carries the number of the frame just
\* processed, greater than every number already in the list; no entry is
\* changed or removed.
C10_ResultsAppendOnlyInFrameOrder ==
    [][\/ results' = results
       \/ /\ Len(results') = Len(results) + 1
          /\ SubSeq(results', 1, Len(results)) = results
          /\ results'[Len(results')][1] = i
          /\ i' = i + 1
          /\ \A k \in DOMAIN results : results[k][1] < results'[Len(results')][1]]_vars

C10_Witness ==
    /\ dpc = "done"
    /\ Len(results) = 2
    /\ results[1][1] < results[2][1]

\* C11: a run on N >= 1 identical frames returns a result with no entry, and
\* a run on a directory without frame files returns an empty result at once.
C11_IdenticalFramesGiveNoEntries ==
    /\ allSame => results = <<>>
    /\ dpc # "idle" /\ frame_paths = <<>> => dpc = "done" /\ results = <<>> /\ i = 0

C11_Witness ==
    /\ dpc = "done"
    /\ allSame
    /\ Len(frame_paths) = MaxDetFrames /\ i = MaxDetFrames
    /\ unread = {}

C11_WitnessNoFrames ==
    /\ dpc = "done"
    /\ frame_paths = <<>>
    /\ pc[1] = "returned"

----------------------------------------------------------------------------
\* Further properties of stream_video

ConfigErrors == {"NotFound", "SizeLimit", "OpenFailed", "ZeroFps"}

\* C12: the decoder handle opened by stream_video is released on every exit
\* taken after it was opened: normal completion, the zero-frame-rate error
\* and the fatal abort.
C12_HandleReleasedOnEveryExit ==
    \A r \in Runs : pc[r] \in Terminal => ~capOpen[r]

\* C13: a call that fails with a configuration or input error (path not
\* found, size limit, container cannot be opened, frame rate 0) has made no
\* decode read, slept for no retry and written no artifact, and has ended.
C13_ConfigErrorsFailFast ==
    \A r \in Runs :
        err[r] \in ConfigErrors =>
            /\ pc[r] = "raised"
            /\ attempts[r] = 0 /\ failsSince[r] = 0
            /\ sleeps[r] = <<>> /\ sleepsSince[r] = 0 /\ retry_count[r] = 0
            /\ wlog[r] = <<>> /\ skipped[r] = <<>>

C13_Witness ==
    /\ err[1] = "ZeroFps" /\ pc[1] = "raised"
    /\ err[2] = "ZeroFps" /\ pc[2] = "raised"

\* C14: after a run that aborted with the fatal error having written at least
\* one artifact, the next call for the same video is taken as done: it returns
\* without error and without a decode read, and the frames the aborted run
\* left out are not extracted.
C14_AbortedRunLooksComplete ==
    (Aborted(1) /\ wlog[1] # <<>>) =>
        /\ pc[2] \in {"idle", "check", "returned"}
        /\ err[2] = "none"
        /\ attempts[2] = 0 /\ wlog[2] = <<>>
        /\ files = {FrameName(n) : n \in Elems(wlog[1])}
        /\ \A n \in Elems(skipped[1]) : FrameName(n) \notin files

C14_Witness ==
    /\ Aborted(1) /\ Len(wlog[1]) = 1 /\ frame_count = MaxFrames
    /\ pc[2] = "returned"

\* C15: nothing keeps two concurrent calls for the same video apart: a call
\* that finds the directory empty goes on to extract whatever the other call
\* is doing, and a call that saves index n writes frame_n whether or not the
\* file is already there; so both calls can pass the frames-already-exist
\* check and write the same artifact (C15_Witness).
C15_NoMutualExclusion ==
    [][\A r \in Runs :
          /\ (pc[r] = "check" /\ files = {} /\ pc'[r] # "check") => pc'[r] = "size"
          /\ (pc[r] = "save" /\ pc'[r] # "save") =>
                 /\ wlog'[r] = Append(wlog[r], idx[r])
                 /\ FrameName(idx[r]) \in files']_vars

C15_Witness ==
    /\ \E n \in 0..MaxConcFrames : IsWritten(1, n) /\ IsWritten(2, n)
    /\ pc[1] = "returned" /\ pc[2] = "returned"
    /\ ret[1] = OutputPath(video_path) /\ ret[2] = OutputPath(video_path)

\* the indices skipped since the last successful read
SkipsSince(r) ==
    IF pc[r] = "save" THEN 0
    ELSE Cardinality({n \in Elems(skipped[r]) : \A w \in Elems(wlog[r]) : n > w})

C16_Bounded ==
    \A r \in Runs :
        /\ failsSince[r] <= 16
        /\ sleepsSince[r] <= 12
        /\ SkipsSince(r) <= 4
        /\ SkipsSince(r) = 4 => Aborted(r)

\* C16: extraction is finite.  After the last successful read at most 4
\* further indices are skipped, with at most 16 failed reads and 12 sleeps,
\* and every call that was started ends, by returning or by raising.
C16_ExtractionIsFinite ==
    /\ []C16_Bounded
    /\ \A r \in Runs : (pc[r] # "idle") ~> (pc[r] \in Terminal)

C16_Witness ==
    /\ Aborted(1)
    /\ wlog[1] = <<0>>
    /\ failsSince[1] = 16 /\ sleepsSince[1] = 12 /\ SkipsSince(1) = 4

\* C17: when a retry read for index i succeeds, the retry loop ends with that
\* read, the consecutive-skip counter is 0, and the frame is saved as the
\* artifact of index i with no further sleep or read for it; the index then
\* advances to i + 1.
C17_RetrySuccessIsSavedLikeFirstTry ==
    [][\A r \in Runs :
          /\ (pc[r] = "retry" /\ attempts'[r] # attempts[r] /\ success'[r]) =>
                 /\ pc'[r] = "save"
                 /\ consecutive_skipped'[r] = 0
                 /\ idx'[r] = idx[r]
                 /\ attempts'[r] = attempts[r] + 1
                 /\ sleeps'[r] = Append(sleeps[r], backoff[r])
                 /\ skipped'[r] = skipped[r]
          /\ (pc[r] = "save" /\ attempts[r] > 1 /\ pc'[r] # "save") =>
                 /\ pc'[r] = "read"
                 /\ wlog'[r] = Append(wlog[r], idx[r])
                 /\ FrameName(idx[r]) \in files'
                 /\ idx'[r] = idx[r] + 1
                 /\ consecutive_skipped'[r] = 0
                 /\ attempts'[r] = attempts[r] /\ sleeps'[r] = sleeps[r]
                 /\ skipped'[r] = skipped[r]]_vars

C17_Witness ==
    /\ pc[1] = "read" /\ success[1]
    /\ attempts[1] = 3 /\ sleeps[1] = <<1, 2>>
    /\ skipped[1] = <<0>> /\ wlog[1] = <<1>> /\ idx[1] = 2
    /\ consecutive_skipped[1] = 0

\* C18: at every iteration of the extraction loop the index is the number of
\* artifacts written plus the number of frames skipped so far, and the
\* consecutive-skip counter is between 0 and 3; the counter never exceeds 4,
\* and a call whose counter is 4 has raised the fatal error.
C18_LoopInvariant ==
    \A r \in Runs :
        /\ pc[r] \in {"read", "retry", "save"} =>
               /\ idx[r] = Len(wlog[r]) + Len(skipped[r])
               /\ consecutive_skipped[r] \in 0..(max_consecutive_skips - 1)
        /\ consecutive_skipped[r] <= max_consecutive_skips
        /\ consecutive_skipped[r] = max_consecutive_skips => Aborted(r)

C18_Witness ==
    /\ pc[1] = "retry"
    /\ consecutive_skipped[1] = 3
    /\ Len(wlog[1]) = 1 /\ Len(skipped[1]) = 3 /\ idx[1] = 4

====
